---- MODULE Spec2Model ----
(***************************************************************************)
(* The training driver of assignment_2/part1/train.py: main dispatches on  *)
(* config.experiment to train(config) or to experiment(config), which      *)
(* calls train(config) once per sequence length.  One action per statement *)
(* group of the script; the program counter pc is the position in it.      *)
(*                                                                         *)
(* Strings that the code converts (model_type) are sequences of            *)
(* one-character strings, so that str.lower() is computed character by     *)
(* character.  An accuracy is the number of correct predictions of a       *)
(* batch: the code's value is that number divided by config.batch_size,    *)
(* so accuracy 1.0 is the number config.batch_size.                        *)
(***************************************************************************)
EXTENDS Integers, Sequences, FiniteSets

\* ------------------------------------------------------------------ bounds

\* Largest --train_steps the runs are given.
MaxTrainSteps == 5

\* Values of --batch_size the runs are given.
BatchSizes == {1, 2}

\* The number of batches the data loader yields before it is exhausted:
\* none, fewer than any run with train_steps >= 2 needs, or more than any
\* run consumes.
LoaderLens == {0, 2, MaxTrainSteps + 2}

\* Values of --model_type the runs are given.
RNN_U == <<"R", "N", "N">>
RRN_U == <<"R", "R", "N">>
ModelTypes ==
  { RNN_U, <<"r", "n", "n">>, <<"L", "S", "T", "M">>, <<"l", "s", "T", "m">>,
    RRN_U, <<"R", "r", "n">>, <<"G", "R", "U">>, <<"r", "n">>, <<>> }

\* ------------------------------------------------------------ pure helpers

\* str.lower(), one character (the letters the inputs use).
LowerChar(c) ==
  CASE c = "R" -> "r"
    [] c = "N" -> "n"
    [] c = "L" -> "l"
    [] c = "S" -> "s"
    [] c = "T" -> "t"
    [] c = "M" -> "m"
    [] c = "G" -> "g"
    [] c = "U" -> "u"
    [] OTHER -> c

LowerIdentity(s) == s

\* str.lower()
Lower(s) == [i \in DOMAIN s |-> LowerChar(s[i])]

rnn == <<"r", "n", "n">>
lstm == <<"l", "s", "t", "m">>
rrn == <<"r", "r", "n">>

\* Python's normalisation of one slice bound for a sequence of length n.
SliceBound(i, n) ==
  IF i < 0 THEN (IF i + n < 0 THEN 0 ELSE i + n)
  ELSE (IF i > n THEN n ELSE i)

RECURSIVE SumRange(_, _, _)
\* arr[lo] + ... + arr[hi-1] with Python's 0-based indices.
SumRange(arr, lo, hi) ==
  IF lo >= hi THEN 0 ELSE arr[lo + 1] + SumRange(arr, lo + 1, hi)

\* arr[start:stop].sum()
SliceSum(arr, start, stop) ==
  SumRange(arr, SliceBound(start, Len(arr)), SliceBound(stop, Len(arr)))

\* len(arr[start:stop])
SliceLen(arr, start, stop) ==
  LET lo == SliceBound(start, Len(arr))
      hi == SliceBound(stop, Len(arr))
  IN IF lo >= hi THEN 0 ELSE hi - lo

\* acc_MA = train_acc[step-4:step+1].sum()/5, as the sum of correct counts:
\* the code's acc_MA is this number divided by 5 * batch_size.
MovingSum(arr, s) == SliceSum(arr, s - 4, s + 1)

MeanIsOne(arr, s, bs) ==
  /\ SliceLen(arr, s - 4, s + 1) > 0
  /\ SliceSum(arr, s - 4, s + 1) = SliceLen(arr, s - 4, s + 1) * bs

\* acc_MA == 1.0
AccMAIsOne(arr, s, bs) == MovingSum(arr, s) = 5 * bs

\* np.argmax(arr): the 0-based index of the first maximum.
ArgMax(arr) ==
  CHOOSE i \in 0..(Len(arr) - 1) :
    /\ \A j \in 0..(Len(arr) - 1) : arr[j + 1] <= arr[i + 1]
    /\ \A j \in 0..(i - 1) : arr[j + 1] < arr[i + 1]

\* np.zeros(n)
Zeros(n) == [i \in 1..n |-> 0]

\* ------------------------------------------------------------------ state

\* The sweep of experiment(): range(start, end+1, stride).
start == 50
end == 500
stride == 50

\* --input_length left at its default.
DefaultInputLength == 10

VARIABLES
  argv,        \* the parsed command line, as given (never written)
  curve,       \* curve[i+1]: correct predictions of the batch of step i (input)
  loader_len,  \* batches the data loader yields per pass (input)
  config,      \* the argparse namespace, which train and experiment write
  pc,          \* position in the script
  caller,      \* who called train: "main" or "experiment"
  calls,       \* calls of train started
  models,      \* the model constructors called, in order
  model,       \* train's local model
  train_acc,   \* train's local array of per-step correct counts
  acc_MA,      \* train's local moving average (as a sum of correct counts)
  step,        \* train's loop index
  fetched,     \* batches this call has taken from the data loader
  loss,        \* the step whose batch the loss graph was built from, or -1
  grads,       \* the parameters' gradients: how they were last written
  opt_steps,   \* optimizer.step() calls of this call's optimizer
  exit,        \* how the training loop ended: "break" or "exhausted"
  saves,       \* the model and train_acc files written, in order
  ret,         \* train's stats dictionary / return value
  stats,       \* experiment's stats list
  sl,          \* experiment's loop variable
  exp_file     \* content of the experiment_stats file

vars ==
  << argv, curve, loader_len, config, pc, caller, calls, models, model,
     train_acc, acc_MA, step, fetched, loss, grads, opt_steps, exit, saves,
     ret, stats, sl, exp_file >>

None == [none |-> TRUE]
NoGrads == [kind |-> "none", batch |-> -1]

\* The part of the run that train's frame holds and its return discards.
locals == << model, train_acc, acc_MA, step, fetched, loss, grads, opt_steps, exit >>
outer == << argv, curve, loader_len, caller, calls, models, saves, stats, sl, exp_file >>

FreshLocals ==
  /\ model' = "none"
  /\ train_acc' = << >>
  /\ acc_MA' = 0
  /\ step' = -1
  /\ fetched' = 0
  /\ loss' = -1
  /\ grads' = NoGrads
  /\ opt_steps' = 0
  /\ exit' = "none"

\* The command lines checked.  A sweep makes ten runs, so its command lines
\* are fewer: batch_size 1 and a loader that is not exhausted, unless the
\* run is at most two steps long.
Checked(a, ll) ==
  \/ a.train_steps <= 1
  \/ /\ a.model_type = RRN_U
     /\ a.experiment => (a.batch_size = 1 /\ ll = MaxTrainSteps + 2)

Init ==
  /\ \E mt \in ModelTypes, ts \in 0..MaxTrainSteps, bs \in BatchSizes, ex \in BOOLEAN :
       argv = [model_type |-> mt, input_length |-> DefaultInputLength,
               train_steps |-> ts, batch_size |-> bs, experiment |-> ex]
  /\ loader_len \in LoaderLens
  /\ Checked(argv, loader_len)
  /\ curve \in [1..(argv.train_steps + 1) -> 0..argv.batch_size]
  /\ config = argv
  /\ pc = "main"
  /\ caller = "none"
  /\ calls = 0
  /\ models = << >>
  /\ model = "none"
  /\ train_acc = << >>
  /\ acc_MA = 0
  /\ step = -1
  /\ fetched = 0
  /\ loss = -1
  /\ grads = NoGrads
  /\ opt_steps = 0
  /\ exit = "none"
  /\ saves = << >>
  /\ ret = None
  /\ stats = << >>
  /\ sl = 0
  /\ exp_file = None

\* ---------------------------------------------------------------- actions

\* __main__: experiment(config) if config.experiment, else train(config).
Main ==
  /\ pc = "main"
  /\ IF config.experiment
       THEN /\ pc' = "exp_loop"
            /\ sl' = start
            /\ UNCHANGED << caller, calls >>
       ELSE /\ pc' = "train"
            /\ caller' = "main"
            /\ calls' = calls + 1
            /\ sl' = sl
  /\ UNCHANGED << argv, curve, loader_len, config, models, saves, ret, stats, exp_file >>
  /\ UNCHANGED locals

\* train, lines 53-56: lower-case model_type and assert it is a known one.
TrainEntry ==
  /\ pc = "train"
  /\ config' = [config EXCEPT !.model_type = Lower(config.model_type)]
  /\ pc' = IF config'.model_type \in {rnn, lstm, rrn} THEN "build" ELSE "failed"
  /\ UNCHANGED << ret >>
  /\ UNCHANGED outer
  /\ UNCHANGED locals

ModelClass(mt) ==
  IF mt = rnn THEN "VanillaRNN"
  ELSE IF mt = lstm THEN "LSTM"
  ELSE IF mt = rrn THEN "RRN"
  ELSE "none"

\* train, lines 59-89: the if/elif chain that constructs the model.
Build ==
  /\ pc = "build"
  /\ model' = ModelClass(config.model_type)
  /\ models' = IF model' = "none" THEN models
               ELSE Append(models, [class |-> model', seq_length |-> config.input_length])
  /\ pc' = "setup"
  /\ UNCHANGED << argv, curve, loader_len, config, caller, calls, saves, ret, stats, sl, exp_file >>
  /\ UNCHANGED << train_acc, acc_MA, step, fetched, loss, grads, opt_steps, exit >>

\* train, lines 93-105: data loader, criterion, optimizer, train_acc, acc_MA.
Setup ==
  /\ pc = "setup"
  /\ train_acc' = Zeros(config.train_steps + 1)
  /\ acc_MA' = 0
  /\ fetched' = 0
  /\ opt_steps' = 0
  /\ pc' = "loop"
  /\ UNCHANGED << config, ret, model, step, loss, grads, exit >>
  /\ UNCHANGED outer

\* train, line 106: the for statement takes the next batch, or the loader is
\* exhausted and the loop ends.
LoopHead ==
  /\ pc = "loop"
  /\ IF fetched < loader_len
       THEN /\ step' = fetched
            /\ fetched' = fetched + 1
            /\ pc' = "forward"
            /\ exit' = exit
       ELSE /\ exit' = "exhausted"
            /\ pc' = "save_model"
            /\ UNCHANGED << step, fetched >>
  /\ UNCHANGED << config, ret, model, train_acc, acc_MA, loss, grads, opt_steps >>
  /\ UNCHANGED outer

\* train, lines 112-117: forward pass and loss of this step's batch.
Forward ==
  /\ pc = "forward"
  /\ loss' = step
  /\ pc' = "zero_grad"
  /\ UNCHANGED << config, ret, model, train_acc, acc_MA, step, fetched, grads, opt_steps, exit >>
  /\ UNCHANGED outer

\* train, line 120: optimizer.zero_grad()
ZeroGrad ==
  /\ pc = "zero_grad"
  /\ grads' = [kind |-> "zero", batch |-> -1]
  /\ pc' = "backward"
  /\ UNCHANGED << config, ret, model, train_acc, acc_MA, step, fetched, loss, opt_steps, exit >>
  /\ UNCHANGED outer

BackwardThenStep ==
  /\ pc = "backward"
  /\ grads' = [kind |-> "raw", batch |-> loss]
  /\ pc' = "opt_step"
  /\ UNCHANGED << config, ret, model, train_acc, acc_MA, step, fetched, loss, opt_steps, exit >>
  /\ UNCHANGED outer

\* train, line 121: loss.backward() writes the gradients of the loss's batch.
Backward ==
  /\ pc = "backward"
  /\ grads' = [kind |-> "raw", batch |-> loss]
  /\ pc' = "clip"
  /\ UNCHANGED << config, ret, model, train_acc, acc_MA, step, fetched, loss, opt_steps, exit >>
  /\ UNCHANGED outer

\* train, line 129: clip_grad_norm_ rescales the gradients in place.
Clip ==
  /\ pc = "clip"
  /\ grads' = [grads EXCEPT !.kind = "clipped"]
  /\ pc' = "opt_step"
  /\ UNCHANGED << config, ret, model, train_acc, acc_MA, step, fetched, loss, opt_steps, exit >>
  /\ UNCHANGED outer

\* train, line 132: optimizer.step()
OptStep ==
  /\ pc = "opt_step"
  /\ opt_steps' = opt_steps + 1
  /\ pc' = "record"
  /\ UNCHANGED << config, ret, model, train_acc, acc_MA, step, fetched, loss, grads, exit >>
  /\ UNCHANGED outer

\* train, lines 134-148: train_acc[step] = accuracy(...), then the print.
Record ==
  /\ pc = "record"
  /\ train_acc' = [train_acc EXCEPT ![step + 1] = curve[step + 1]]
  /\ pc' = "test"
  /\ UNCHANGED << config, ret, model, acc_MA, step, fetched, loss, grads, opt_steps, exit >>
  /\ UNCHANGED outer

TestThenCheckpoint ==
  /\ pc = "test"
  /\ acc_MA' = MovingSum(train_acc, step)
  /\ IF step = config.train_steps \/ AccMAIsOne(train_acc, step, config.batch_size)
       THEN exit' = "break" /\ pc' = "save_model"
       ELSE exit' = exit /\ pc' = "loop"
  /\ saves' = Append(saves, [kind |-> "model", call |-> calls, content |-> model])
  /\ UNCHANGED << config, ret, model, train_acc, step, fetched, loss, grads, opt_steps >>
  /\ UNCHANGED << argv, curve, loader_len, caller, calls, models, stats, sl, exp_file >>

\* train, lines 150-154: the moving average and the exit test.
Test ==
  /\ pc = "test"
  /\ acc_MA' = MovingSum(train_acc, step)
  /\ IF step = config.train_steps \/ AccMAIsOne(train_acc, step, config.batch_size)
       THEN exit' = "break" /\ pc' = "save_model"
       ELSE exit' = exit /\ pc' = "loop"
  /\ UNCHANGED << config, ret, model, train_acc, step, fetched, loss, grads, opt_steps >>
  /\ UNCHANGED outer

\* train, line 158: torch.save(model, ...)
SaveModel ==
  /\ pc = "save_model"
  /\ saves' = Append(saves, [kind |-> "model", call |-> calls, content |-> model])
  /\ pc' = "save_acc"
  /\ UNCHANGED << argv, curve, loader_len, config, caller, calls, models, ret, stats, sl, exp_file >>
  /\ UNCHANGED locals

\* train, line 159: np.save("train_acc_...", train_acc)
SaveAcc ==
  /\ pc = "save_acc"
  /\ saves' = Append(saves, [kind |-> "train_acc", call |-> calls, content |-> train_acc])
  /\ pc' = "stats"
  /\ UNCHANGED << argv, curve, loader_len, config, caller, calls, models, ret, stats, sl, exp_file >>
  /\ UNCHANGED locals

\* train, lines 161-168: the stats dictionary, in experiment mode.
Stats ==
  /\ pc = "stats"
  /\ ret' = IF config.experiment
              THEN [ last_acc |-> train_acc[Len(train_acc)],
                     best_acc |-> train_acc[ArgMax(train_acc) + 1],
                     step_best_acc |-> ArgMax(train_acc),
                     num_steps |-> Len(train_acc),
                     accs |-> train_acc ]
              ELSE None
  /\ pc' = "return"
  /\ UNCHANGED config
  /\ UNCHANGED outer
  /\ UNCHANGED locals

\* train, line 169 (or the end of the function): back to the caller.
Return ==
  /\ pc = "return"
  /\ pc' = IF caller = "experiment" THEN "exp_append" ELSE "done"
  /\ FreshLocals
  /\ UNCHANGED << config, ret >>
  /\ UNCHANGED outer

ExpLoopKeepLength ==
  /\ pc = "exp_loop"
  /\ IF sl <= end
       THEN /\ config' = config
            /\ caller' = "experiment"
            /\ calls' = calls + 1
            /\ pc' = "train"
       ELSE /\ pc' = "done"
            /\ UNCHANGED << config, caller, calls >>
  /\ UNCHANGED << argv, curve, loader_len, models, saves, ret, stats, sl, exp_file >>
  /\ UNCHANGED locals

\* experiment, lines 181-183: the next sequence length, and the call of train.
ExpLoop ==
  /\ pc = "exp_loop"
  /\ IF sl <= end
       THEN /\ config' = [config EXCEPT !.input_length = sl]
            /\ caller' = "experiment"
            /\ calls' = calls + 1
            /\ pc' = "train"
       ELSE /\ pc' = "done"
            /\ UNCHANGED << config, caller, calls >>
  /\ UNCHANGED << argv, curve, loader_len, models, saves, ret, stats, sl, exp_file >>
  /\ UNCHANGED locals

\* The dictionary train returned with every entry of vars(config) added.
WithConfig(d, c) ==
  [ last_acc |-> d.last_acc, best_acc |-> d.best_acc,
    step_best_acc |-> d.step_best_acc, num_steps |-> d.num_steps, accs |-> d.accs,
    model_type |-> c.model_type, input_length |-> c.input_length,
    train_steps |-> c.train_steps, batch_size |-> c.batch_size,
    experiment |-> c.experiment ]

\* experiment, lines 183-186: append train's result, add the config to it.
\* train returned None if config.experiment is false: the item assignment
\* on None raises TypeError.
ExpAppend ==
  /\ pc = "exp_append"
  /\ IF ret = None
       THEN /\ stats' = Append(stats, None)
            /\ pc' = "failed"
       ELSE /\ stats' = Append(stats, WithConfig(ret, config))
            /\ pc' = "exp_save"
  /\ UNCHANGED << argv, curve, loader_len, config, caller, calls, models, saves, ret, sl, exp_file >>
  /\ UNCHANGED locals

\* experiment, line 189 and the for statement's increment.
ExpSave ==
  /\ pc = "exp_save"
  /\ exp_file' = stats
  /\ sl' = sl + stride
  /\ pc' = "exp_loop"
  /\ UNCHANGED << argv, curve, loader_len, config, caller, calls, models, saves, ret, stats >>
  /\ UNCHANGED locals

Next ==
  \/ Main
  \/ TrainEntry
  \/ Build
  \/ Setup
  \/ LoopHead
  \/ Forward
  \/ ZeroGrad
  \/ Backward
  \/ Clip
  \/ OptStep
  \/ Record
  \/ Test
  \/ SaveModel
  \/ SaveAcc
  \/ Stats
  \/ Return
  \/ ExpLoop
  \/ ExpAppend
  \/ ExpSave

Spec == Init /\ [][Next]_vars

\* The interpreter runs the script to its end: every enabled statement is
\* eventually executed.
FairSpec == Spec /\ WF_vars(Next)

\* ------------------------------------------------------------------ claims

\* Positions inside train before its loop has ended.
BeforeLoopEnd ==
  {"train", "build", "setup", "loop", "forward", "zero_grad", "backward",
   "clip", "opt_step", "record", "test"}

\* a equals b when case is ignored; b is lower case.
EqIgnoreCase(a, b) ==
  /\ Len(a) = Len(b)
  /\ \A i \in DOMAIN a :
       \/ a[i] = b[i]
       \/ << a[i], b[i] >> \in { <<"R", "r">>, <<"N", "n">>, <<"L", "l">>, <<"S", "s">>,
                                <<"T", "t">>, <<"M", "m">>, <<"G", "g">>, <<"U", "u">> }

\* The model class the command line asks for, "none" if it names none.
Wanted ==
  IF EqIgnoreCase(argv.model_type, <<"r", "n", "n">>) THEN "VanillaRNN"
  ELSE IF EqIgnoreCase(argv.model_type, <<"l", "s", "t", "m">>) THEN "LSTM"
  ELSE IF EqIgnoreCase(argv.model_type, <<"r", "r", "n">>) THEN "RRN"
  ELSE "none"

\* C1, as steps: the optimizer steps only on gradients that were zeroed,
\* written by the backward pass of this step's loss and then clipped; the
\* accuracy is written to train_acc[step] only after that optimizer step.
C1_Steps ==
  /\ (grads'.kind = "zero" /\ grads.kind # "zero") => loss = step
  /\ (grads'.kind = "raw" /\ grads.kind # "raw") =>
       (grads.kind = "zero" /\ loss = step /\ grads'.batch = step)
  /\ (grads'.kind = "clipped" /\ grads.kind # "clipped") =>
       grads = [kind |-> "raw", batch |-> step]
  /\ (opt_steps' = opt_steps + 1) =>
       (grads = [kind |-> "clipped", batch |-> step] /\ loss = step /\ opt_steps = step)
  /\ (train_acc # << >> /\ train_acc' # << >> /\ train_acc' # train_acc) =>
       /\ opt_steps = step + 1
       /\ grads = [kind |-> "clipped", batch |-> step]
       /\ \A i \in DOMAIN train_acc : i # step + 1 => train_acc'[i] = train_acc[i]

\* C1, as states: when the exit test is evaluated, this step's optimizer step
\* has been taken and its accuracy is in train_acc[step]; between iterations
\* there is one optimizer step per batch taken.
C1_AtTest ==
  /\ pc = "test" =>
       /\ opt_steps = step + 1
       /\ train_acc[step + 1] = curve[step + 1]
       /\ grads = [kind |-> "clipped", batch |-> step]
  /\ pc = "loop" => opt_steps = fetched

\* C1: in every iteration of the training loop the order is forward pass and
\* loss, zero_grad, backward pass, gradient clipping, optimizer step, record
\* of the accuracy in train_acc[step], and only then the exit test, all on
\* the same batch.
C1_IterationOrder == [][C1_Steps]_vars /\ []C1_AtTest

\* C1's case: the exit test of the second iteration, a non-zero accuracy recorded.
C1_Witness ==
  pc = "test" /\ step = 1 /\ opt_steps = 2 /\ train_acc[2] > 0 /\ train_acc[1] > 0

\* C2: train builds exactly one model per call, the one config.model_type
\* names when case is ignored; for any other model_type it fails at the
\* assertion with no model built, no step run and nothing saved; after a
\* call config.model_type is the lower-cased name, so every later call
\* builds the same model.
C2_ModelSelection ==
  /\ Wanted = "none" =>
       /\ pc \in {"main", "exp_loop", "train", "failed"}
       /\ models = << >> /\ model = "none"
       /\ saves = << >> /\ exp_file = None
       /\ opt_steps = 0 /\ fetched = 0 /\ train_acc = << >>
  /\ Wanted # "none" => pc # "failed"
  /\ \A i \in DOMAIN models : models[i].class = Wanted
  /\ Wanted # "none" =>
       Len(models) = IF pc \in {"train", "build"} THEN calls - 1 ELSE calls
  /\ (pc \in {"setup", "loop", "forward", "test", "save_model"}) => model = Wanted
  /\ (calls >= 2 \/ pc \in {"done", "exp_append", "exp_save", "return"}) =>
       /\ config.model_type \in { <<"r", "n", "n">>, <<"l", "s", "t", "m">>, <<"r", "r", "n">> }
       /\ EqIgnoreCase(argv.model_type, config.model_type)

\* C2's case: the second call of train for a mixed-case model_type has built
\* its model.
C2_Witness ==
  /\ argv.model_type = <<"l", "s", "T", "m">>
  /\ calls = 2 /\ pc = "setup" /\ Len(models) = 2 /\ model = "LSTM"

\* C3: a call of train whose loop ends at the step limit, the moving-average
\* stop not having fired, has performed exactly train_steps optimizer steps.
C3_TrainStepsIsStepCount ==
  (pc = "save_model" /\ exit = "break" /\ acc_MA # 5 * config.batch_size) =>
    opt_steps = config.train_steps

\* C4: experiment calls train once per sequence length 50, 100, ..., 500 in
\* ascending order with config.input_length set to it; after the k-th run
\* the stats list has k entries and is what the experiment file holds; entry
\* k records input_length 50*k and the other config parameters, and keeps
\* them when later runs change config.
C4_Sweep ==
  config.experiment =>
    /\ \A i \in DOMAIN models : models[i].seq_length = 50 * i
    /\ Len(models) <= 10 /\ calls <= 10
    /\ (caller = "experiment" /\ pc \notin {"exp_loop", "exp_save", "done"}) =>
         /\ config.input_length = 50 * calls
         /\ Len(stats) = calls - 1
         /\ (calls > 1 => exp_file = stats)
    /\ \A i \in DOMAIN stats :
         /\ stats[i] # None
         /\ stats[i].input_length = 50 * i
         /\ stats[i].model_type = config.model_type
         /\ stats[i].train_steps = argv.train_steps
         /\ stats[i].batch_size = argv.batch_size
         /\ stats[i].experiment = TRUE
    /\ pc = "exp_save" =>
         /\ Len(stats) = calls
         /\ exp_file = IF calls = 1 THEN None ELSE SubSeq(stats, 1, calls - 1)
    /\ pc = "exp_loop" =>
         /\ Len(stats) = calls
         /\ calls = (sl - 50) \div 50
         /\ (calls > 0 => exp_file = stats)
    /\ pc = "done" => (calls = 10 /\ Len(stats) = 10 /\ exp_file = stats /\ Len(models) = 10)

\* C4's case: the sweep has ended, ten entries saved.
C4_Witness ==
  /\ pc = "done" /\ config.experiment /\ Len(stats) = 10
  /\ stats[3].input_length = 150 /\ stats[10].input_length = 500
  /\ config.input_length = 500

\* C5, as states: a call takes at most train_steps + 1 batches; nothing is
\* saved before its loop has ended; then the model is saved, then train_acc,
\* once each.
C5_Saves ==
  /\ fetched <= config.train_steps + 1
  /\ opt_steps <= config.train_steps + 1
  /\ \A i \in DOMAIN saves :
       /\ saves[i].kind = IF i % 2 = 1 THEN "model" ELSE "train_acc"
       /\ saves[i].call = (i + 1) \div 2
  /\ pc \in BeforeLoopEnd \cup {"save_model"} => Len(saves) = 2 * (calls - 1)
  /\ pc = "save_acc" => Len(saves) = 2 * calls - 1
  /\ pc \in {"stats", "return", "exp_append", "exp_save", "exp_loop", "done"} =>
       Len(saves) = 2 * calls

\* C5, as steps: no optimizer step follows a save of the same call.
C5_StepsBeforeSaves ==
  (opt_steps' = opt_steps + 1) => Len(saves) = 2 * (calls - 1)

\* C5: every call of train with a valid model_type leaves its loop after at
\* most train_steps + 1 iterations and then saves the model and train_acc,
\* once each, in that order, after its last optimizer step.
C5_TerminatesAndSaves ==
  /\ []C5_Saves
  /\ [][C5_StepsBeforeSaves]_vars
  /\ (pc = "setup") ~> (pc = "return" /\ Len(saves) = 2 * calls)

\* C5's case: a run that took train_steps + 1 steps has saved both files.
C5_Witness ==
  /\ pc = "return" /\ config.train_steps >= 2
  /\ opt_steps = config.train_steps + 1 /\ Len(saves) = 2
  /\ saves[2].content = curve

\* The five most recent accuracies at step s are all 1.0.
LastFiveFull(s) ==
  /\ s >= 4
  /\ \A j \in (s - 4)..s : train_acc[j + 1] = config.batch_size

\* C6: the loop stops before step train_steps exactly when the accuracies of
\* steps s-4..s are all 1.0; it never stops so at a step s < 4.
C6_EarlyStop ==
  /\ (exit = "break" /\ step < config.train_steps) => LastFiveFull(step)
  /\ (pc = "loop" /\ fetched > 0) => ~LastFiveFull(step)
  /\ (pc = "loop" /\ fetched > 0) => step < config.train_steps

\* C6's case: the loop stopped at step 4 of a longer run.
C6_Witness ==
  pc = "save_model" /\ exit = "break" /\ step = 4 /\ step < config.train_steps

\* C7: the 'last acc' of the stats train returns is the accuracy of the last
\* step the run executed.
C7_LastAcc ==
  (pc = "return" /\ ret # None /\ opt_steps > 0) => ret.last_acc = train_acc[step + 1]

====
